---- MODULE Spec2Model ----
(***************************************************************************)
(* The Monte Carlo stage-transition engine of the VC fund simulator:       *)
(* SimulatorControl (src/src/components/simulator.tsx), its copy           *)
(* runSimulationFromApp in App.tsx (src/unnamed/part_000) and the zustand  *)
(* store (src/src/lib/store.ts).                                           *)
(*                                                                         *)
(* Numbers are exact rationals [n, d] in lowest terms with d > 0; the      *)
(* JavaScript values NaN, Infinity and -Infinity are 0/0, 1/0 and -1/0.    *)
(* Every Math.random() call is an input of the step that makes it.         *)
(***************************************************************************)
EXTENDS Integers, Sequences, FiniteSets, TLC

VARIABLES
  store,        \* the zustand store state (store.ts)
  followOn,     \* App's useState: Seed -> Series A follow-on config
  followOnAB,   \* App's useState: Series A -> Series B follow-on config
  toast,        \* the last toast shown
  entry,        \* which Run button started the run in flight
  cl,           \* the values the run in flight closed over when it was started
  currentStep,  \* the timer step counter of the run in flight
  pc,           \* position of the run in flight
  sim,          \* the run loop's index
  acc,          \* accumulators across runs: allInvestments, moics, irrs, totals
  run,          \* locals of the current run
  inv,          \* locals of the current investment
  draws         \* the Math.random() values the invocation has consumed, when recorded

vars == <<store, followOn, followOnAB, toast, entry, cl, currentStep, pc, sim, acc, run, inv,
          draws>>

-----------------------------------------------------------------------------
(* Bounds of the model *)

\* largest numSimulations a configuration holds
MaxSims == 2
\* largest number of portfolio companies
MaxCompanies == 2
\* largest number of investments of one invocation
MaxInvestments == 2

-----------------------------------------------------------------------------
(* JavaScript numbers *)

Abs(x) == IF x < 0 THEN -x ELSE x

Sign(x) == IF x < 0 THEN -1 ELSE IF x > 0 THEN 1 ELSE 0

RECURSIVE GCD(_, _)
GCD(a, b) == IF b = 0 THEN a ELSE GCD(b, a % b)

\* n/d in lowest terms, d > 0; a zero denominator gives NaN or +-Infinity
Norm(n, d) ==
  IF d = 0 THEN [n |-> Sign(n), d |-> 0]
  ELSE LET g == GCD(Abs(n), Abs(d))
           s == IF d < 0 THEN -1 ELSE 1
       IN  [n |-> (s * n) \div g, d |-> (s * d) \div g]

R(k) == [n |-> k, d |-> 1]
Q(a, b) == Norm(a, b)
NaN == [n |-> 0, d |-> 0]
IsNaN(x) == x.n = 0 /\ x.d = 0

RAdd(a, b) ==
  IF a.d = 0 /\ b.d = 0 THEN (IF a.n = b.n THEN a ELSE NaN)
  ELSE IF a.d = b.d THEN Norm(a.n + b.n, a.d)
  ELSE Norm(a.n * b.d + b.n * a.d, a.d * b.d)
RNeg(a) == [n |-> -a.n, d |-> a.d]
RSub(a, b) == RAdd(a, RNeg(b))
RMul(a, b) == LET x == Norm(a.n, b.d)
                  y == Norm(b.n, a.d)
              IN  IF a.d = 0 \/ b.d = 0 THEN Norm(a.n * b.n, 0)
                  ELSE Norm(x.n * y.n, x.d * y.d)
RDiv(a, b) == IF b.d = 0 \/ b.n = 0 \/ a.d = 0
              THEN Norm(a.n * b.d, a.d * b.n)
              ELSE RMul(a, Norm(b.d, b.n))

\* JavaScript comparisons: every comparison with NaN is false
RLt(a, b) == ~IsNaN(a) /\ ~IsNaN(b) /\ a.n * b.d < b.n * a.d
RLe(a, b) == ~IsNaN(a) /\ ~IsNaN(b) /\ (a = b \/ a.n * b.d < b.n * a.d)
RGt(a, b) == RLt(b, a)
RGe(a, b) == RLe(b, a)

\* Math.min: NaN if either argument is NaN
MathMin(a, b) == IF IsNaN(a) \/ IsNaN(b) THEN NaN ELSE IF RLt(b, a) THEN b ELSE a

\* x || dflt on a number: 0 and NaN are falsy
OrNumber(x, dflt) == IF x.n = 0 THEN dflt ELSE x

\* m[k] ?? dflt and m[k] || dflt on a map whose entries are never falsy or null
Lookup(m, k, dflt) == IF k \in DOMAIN m THEN m[k] ELSE dflt

\* a map the store does not hold (undefined): reading an entry of it throws
NoMap == [undefined |-> TRUE]

\* lo + Math.random() * (hi - lo), the draw u given in hundredths
Sample(range, u) == RAdd(range[1], RMul(Q(u, 100), RSub(range[2], range[1])))

RECURSIVE RSum(_)
RSum(s) == IF s = <<>> THEN R(0) ELSE RAdd(s[1], RSum(Tail(s)))

-----------------------------------------------------------------------------
(* Stages and configuration maps *)

\* simulator.tsx:37, the stages a fund invests at
stages == <<"Pre-Seed", "Seed", "Series A", "Series B">>

\* simulator.tsx:113, the stage order of the transition loop
stagesSequence == <<"Pre-Seed", "Seed", "Series A", "Series B", "Series C", "IPO">>

\* Array.indexOf on a list of strings, 1-based; 0 when absent
IndexOf(seq, x) == IF \E k \in 1..Len(seq) : seq[k] = x
                   THEN CHOOSE k \in 1..Len(seq) : seq[k] = x
                   ELSE 0

\* the template string `${fromStage} to ${toStage}`
progressionKey(fromStage, toStage) == fromStage \o " to " \o toStage

AllKeys == {progressionKey(stagesSequence[k], stagesSequence[k + 1]) : k \in 1..5}
AllStages == {stagesSequence[k] : k \in 1..6}

\* the draws Math.random() * 100 of the probability checks
PercentDraws == {0, 50, 99}
\* the draws Math.random() of the range samples, in hundredths
UnitDraws == {0, 50}

Range(lo, hi) == <<R(lo), R(hi)>>

\* store.ts:243-249, the initial probAdvancement
DefaultProbAdvancement ==
  [k \in AllKeys |->
     CASE k = "Pre-Seed to Seed" -> 50
       [] k = "Seed to Series A" -> 33
       [] k = "Series A to Series B" -> 48
       [] k = "Series B to Series C" -> 43
       [] k = "Series C to IPO" -> 28]

\* store.ts:292-299, the initial lossProbabilities
DefaultLossProbabilities ==
  [s \in AllStages |->
     CASE s \in {"Pre-Seed", "Seed", "Series A"} -> 30
       [] s \in {"Series B", "Series C"} -> 20
       [] s = "IPO" -> 0]

\* probAdvancement maps the store can hold (sliders 0..100; setProbAdvancement,
\* importParameters and loadPortfolio replace the whole map, keys may be missing)
ProbMaps ==
  { DefaultProbAdvancement,
    [k \in AllKeys |-> 100],
    [k \in AllKeys |-> IF k = "Seed to Series A" THEN 0 ELSE 100],
    [k \in AllKeys \ {"Seed to Series A"} |-> 100],
    [k \in {} |-> 0] }

\* dilution maps the store can hold (sliders 0..100)
DilutionMaps ==
  { [k \in AllKeys |-> Range(20, 20)],
    [k \in AllKeys \ {"Seed to Series A"} |->
       CASE k = "Pre-Seed to Seed" -> Range(0, 100)
         [] k = "Series A to Series B" -> Range(50, 50)
         [] k = "Series B to Series C" -> Range(0, 0)
         [] k = "Series C to IPO" -> Range(100, 100)] }

\* exitValuations maps the store can hold
ExitMaps ==
  { [s \in AllStages |->
       CASE s = "Pre-Seed" -> Range(4, 10)
         [] s = "Seed" -> Range(5, 9)
         [] s = "Series A" -> Range(6, 6)
         [] s = "Series B" -> Range(8, 8)
         [] s = "Series C" -> Range(20, 40)
         [] s = "IPO" -> Range(100, 200)],
    [s \in {"Series C"} |-> Range(20, 40)] }

\* lossProbabilities maps the store can hold (sliders 0..100)
LossMaps ==
  { DefaultLossProbabilities,
    [s \in AllStages |-> 100],
    [s \in {"Series C", "IPO"} |-> 0] }

-----------------------------------------------------------------------------
(* The follow-on configs as the engine sees them *)

\* a follow-on config the engine finds undefined
Undefined == [defined |-> FALSE, selected |-> {}, avgVal |-> R(0)]

\* The engine takes followOn / followOnAB from the store (simulator.tsx:33-34,
\* part_000:223). The store has no such fields (store.ts:139-436): the configs
\* live in App's useState (part_000:479-494) and are never written to the store.
StoreFollowOnWired(st, appState) == [appState EXCEPT !.defined = TRUE]
StoreFollowOn(st, appState) == Undefined

\* followOn && followOn.selected && followOn.selected[company.id]
IsSelected(fo, id) == fo.defined /\ id \in fo.selected

-----------------------------------------------------------------------------
(* One investment: the stage transition loop and the exit *)

\* equity *= (1 - dilutionPct), dilutionPct a sample of the range over 100
DiluteUp(equity, dilutionRange, u) ==
  RMul(equity, RAdd(R(1), RDiv(Sample(dilutionRange, u), R(100))))
Dilute(equity, dilutionRange, u) ==
  RMul(equity, RSub(R(1), RDiv(Sample(dilutionRange, u), R(100))))

\* simulator.tsx:104-118, the locals of a portfolio company's investment
NewPortfolioInvestment(company) ==
  [ id |-> company.id,
    entryStage |-> company.stage,
    entryAmount |-> OrNumber(company.checkSize, R(1)),
    equity |-> R(1),
    currentStage |-> company.stage,
    exitStage |-> company.stage,
    exitAmount |-> R(0),
    reachedIPO |-> FALSE,
    i |-> IndexOf(stagesSequence, company.stage),
    forcedSeedFollow |-> FALSE,
    forcedABFollow |-> FALSE,
    looping |-> TRUE ]

\* stagesSequence[i + 1] of the loop body
toStageSkipping(seq, i) == seq[IF i + 2 <= Len(seq) THEN i + 2 ELSE i + 1]
toStageOf(seq, i) == seq[i + 1]

\* probAdvancement[progressionKey] ?? 0 (simulator.tsx:135) and
\* probAdvancement[key] || 0 (simulator.tsx:309)
progressionProbDefault30(probAdvancement, key) == Lookup(probAdvancement, key, 30)
progressionProb(probAdvancement, key) == Lookup(probAdvancement, key, 0)

\* simulator.tsx:120-174, one iteration of the portfolio stage loop.
\* r: the advancement draw, uDil: the dilution draw, uExit: the IPO exit draw.
PortfolioStageStep(c, fo, foAB, v, r, uDil, uExit) ==
  LET fromStage == stagesSequence[v.i]
      toStage == toStageOf(stagesSequence, v.i)
      forceSeed == /\ ~v.forcedSeedFollow
                   /\ fromStage = "Seed"
                   /\ IsSelected(fo, v.id)
                   /\ v.currentStage = "Seed"
      forceAB == /\ ~v.forcedABFollow
                 /\ fromStage = "Series A"
                 /\ IsSelected(foAB, v.id)
                 /\ v.currentStage = "Series A"
      forceAdvance == forceSeed \/ forceAB
      key == progressionKey(fromStage, toStage)
      prob == progressionProb(c.probAdvancement, key)
      dilutionRange == Lookup(c.dilution, key, Range(10, 25))
      flagged == [v EXCEPT !.forcedSeedFollow = @ \/ forceSeed,
                           !.forcedABFollow = @ \/ forceAB]
      entryAmount == IF ~forceAdvance THEN v.entryAmount
                     ELSE IF fromStage = "Series A" THEN foAB.avgVal
                     ELSE IF fromStage = "Seed" THEN fo.avgVal
                     ELSE v.entryAmount
      equity == Dilute(v.equity, dilutionRange, uDil)
      advanced == [flagged EXCEPT !.equity = equity,
                                  !.currentStage = toStage,
                                  !.entryAmount = entryAmount,
                                  !.i = v.i + 1,
                                  !.looping = v.i + 1 <= 5]
      exitRange == Lookup(c.exitValuations, "Series C", Range(100, 1000))
      ipo == [advanced EXCEPT !.exitStage = "IPO",
                              !.exitAmount = RMul(RMul(equity, Sample(exitRange, uExit)),
                                                  entryAmount),
                              !.reachedIPO = TRUE,
                              !.i = v.i,
                              !.looping = FALSE]
  IN  IF forceAdvance \/ r < prob
      THEN IF toStage = "IPO" THEN ipo ELSE advanced
      ELSE [flagged EXCEPT !.looping = FALSE]

\* simulator.tsx:175-186, the loss check and the exit of a portfolio investment.
\* r2: the loss draw, uExit: the exit valuation draw.
PortfolioExit(c, v, r2, uExit) ==
  LET lossProb == Lookup(c.lossProbabilities, v.currentStage, 30)
      exitRange == Lookup(c.exitValuations, v.currentStage, Range(4, 10))
  IN  IF r2 < lossProb
      THEN [v EXCEPT !.exitStage = v.currentStage, !.exitAmount = R(0)]
      ELSE IF ~v.reachedIPO
      THEN [v EXCEPT !.exitAmount = RMul(RMul(v.equity, Sample(exitRange, uExit)),
                                         v.entryAmount),
                     !.exitStage = v.currentStage]
      ELSE v

\* simulator.tsx:301, the stage sequence of a fund investment made at `stage`
FundStagesSequence(stage) ==
  SubSeq(stages, IndexOf(stages, stage), Len(stages)) \o <<"Series C", "IPO">>

\* simulator.tsx:286-299, the locals of a fund investment
NewFundInvestment(id, stage, checkSize, valuation) ==
  [ id |-> id,
    entryStage |-> stage,
    entryAmount |-> checkSize,
    equity |-> RDiv(checkSize, valuation),
    currentStage |-> stage,
    exitStage |-> stage,
    exitAmount |-> R(0),
    reachedIPO |-> FALSE,
    i |-> 1,
    forcedSeedFollow |-> FALSE,
    forcedABFollow |-> FALSE,
    looping |-> Len(FundStagesSequence(stage)) > 1 ]

\* simulator.tsx:303-318, one iteration of the fund stage loop
FundStageStep(c, v, r, uDil) ==
  LET seq == FundStagesSequence(v.entryStage)
      prevStage == seq[v.i]
      nextStage == toStageOf(seq, v.i)
      key == progressionKey(prevStage, nextStage)
      dilutionRange == Lookup(c.dilution, key, Range(10, 20))
  IN  IF r <= progressionProb(c.probAdvancement, key)
      THEN [v EXCEPT !.equity = Dilute(v.equity, dilutionRange, uDil),
                     !.currentStage = nextStage,
                     !.i = v.i + 1,
                     !.looping = v.i + 1 < Len(seq)]
      ELSE [v EXCEPT !.looping = FALSE]

\* simulator.tsx:320-329 and 336, the loss check and the exit of a fund investment
FundExitLossOfEntryStage(c, v, r2, uExit) ==
  LET lossProb == Lookup(c.lossProbabilities, v.entryStage, 30)
      exitRange == Lookup(c.exitValuations, v.currentStage, Range(10, 90))
  IN  [v EXCEPT !.exitStage = v.currentStage,
                !.exitAmount = IF r2 > lossProb
                               THEN RMul(v.equity, Sample(exitRange, uExit))
                               ELSE R(0)]
FundExitLossAboveProbability(c, v, r2, uExit) ==
  LET lossProb == Lookup(c.lossProbabilities, v.currentStage, 30)
      exitRange == Lookup(c.exitValuations, v.currentStage, Range(10, 90))
  IN  [v EXCEPT !.exitStage = v.currentStage,
                !.exitAmount = IF r2 > lossProb
                               THEN R(0)
                               ELSE RMul(v.equity, Sample(exitRange, uExit))]
FundExit(c, v, r2, uExit) ==
  LET lossProb == Lookup(c.lossProbabilities, v.currentStage, 30)
      exitRange == Lookup(c.exitValuations, v.currentStage, Range(10, 90))
  IN  [v EXCEPT !.exitStage = v.currentStage,
                !.exitAmount = IF r2 > lossProb
                               THEN RMul(v.equity, Sample(exitRange, uExit))
                               ELSE R(0)]

\* the Investment record pushed to the run's list (simulator.tsx:188-194, 332-338)
InvestmentOf(runIndex, v) ==
  [ id |-> ToString(runIndex) \o "-" \o v.id,
    entryStage |-> v.entryStage,
    entryAmount |-> v.entryAmount,
    exitStage |-> v.exitStage,
    exitAmount |-> v.exitAmount ]

\* The Math.random() calls one iteration of the portfolio stage loop makes, in
\* order, w being the investment after it: the advancement draw unless the
\* transition is forced (simulator.tsx:155), the dilution draw on a transition
\* (139, 158), the exit draw on reaching IPO (148, 165)
PortfolioStageDraws(v, w, r, uDil, uExit) ==
  (IF w.forcedSeedFollow # v.forcedSeedFollow \/ w.forcedABFollow # v.forcedABFollow
   THEN <<>> ELSE <<r>>)
  \o (IF w.currentStage # v.currentStage THEN <<uDil>> ELSE <<>>)
  \o (IF w.reachedIPO THEN <<uExit>> ELSE <<>>)

\* simulator.tsx:177 and 183: the loss draw, and the exit draw of an investment
\* neither lost nor exited at IPO
PortfolioExitDraws(c, v, r2, uExit) ==
  <<r2>> \o (IF r2 < Lookup(c.lossProbabilities, v.currentStage, 30) \/ v.reachedIPO
             THEN <<>> ELSE <<uExit>>)

\* simulator.tsx:309 and 312: the advancement draw, and the dilution draw on a
\* transition
FundStageDraws(v, w, r, uDil) ==
  <<r>> \o (IF w.currentStage # v.currentStage THEN <<uDil>> ELSE <<>>)

\* simulator.tsx:324 and 327: the loss draw, and the exit draw of an investment
\* not lost
FundExitDraws(c, v, r2, uExit) ==
  <<r2>> \o (IF r2 > Lookup(c.lossProbabilities, v.currentStage, 30)
             THEN <<uExit>> ELSE <<>>)

-----------------------------------------------------------------------------
(* Per-run and aggregate metrics *)

\* an IRR value: the number n/d, or with root = TRUE the number
\* (fifthRoot(n/d) - 1) * 100 where it lies strictly between -50 and 100
Num(x) == [root |-> FALSE, n |-> x.n, d |-> x.d]

\* Math.min(Math.max((Math.pow(x, 1/5) - 1) * 100, -50), 100)
ClippedIrr(x) ==
  IF IsNaN(x) \/ x.n < 0 THEN Num(NaN)
  ELSE IF RLe(x, Q(1, 32)) THEN Num(R(-50))
  ELSE IF RGe(x, R(32)) THEN Num(R(100))
  ELSE IF x = R(1) THEN Num(R(0))
  ELSE [root |-> TRUE, n |-> x.n, d |-> x.d]

\* simulator.tsx:202, the run's MOIC
RunMoic(paidIn, distributed) ==
  IF RGt(paidIn, R(0)) THEN RDiv(distributed, paidIn) ELSE R(0)

\* simulator.tsx:204, the portfolio run's IRR
PortfolioIrr(paidIn, distributed) ==
  IF RGt(paidIn, R(0)) THEN ClippedIrr(RDiv(distributed, paidIn)) ELSE Num(R(0))

\* simulator.tsx:355, the fund run's IRR, taken from the run's MOIC
FundIrr(moic) == ClippedIrr(moic)

RECURSIVE ExactPart(_)
ExactPart(irrs) ==
  IF irrs = <<>> THEN R(0)
  ELSE IF Head(irrs).root THEN ExactPart(Tail(irrs))
  ELSE RAdd([n |-> Head(irrs).n, d |-> Head(irrs).d], ExactPart(Tail(irrs)))

IsRoot(x) == x.root

\* simulator.tsx:208-209, the means: sum / length
MeanMoic(moics) == RDiv(RSum(moics), R(Len(moics)))
MeanIrr(irrs) == [ exact |-> RDiv(ExactPart(irrs), R(Len(irrs))),
                   roots |-> SelectSeq(irrs, IsRoot),
                   count |-> Len(irrs) ]

Null == [null |-> TRUE]

\* simulator.tsx:211-221 and 364-374, the SimulationResults published
PortfolioResults(c, a) ==
  [ null |-> FALSE,
    moics |-> a.moics,
    irrs |-> a.irrs,
    meanMoic |-> MeanMoic(a.moics),
    meanIrr |-> MeanIrr(a.irrs),
    investments |-> a.allInvestments,
    paidIn |-> RDiv(a.paidInTotal, R(c.numSimulations)),
    distributed |-> RDiv(a.distributedTotal, R(c.numSimulations)),
    numInvestments |-> R(Len(c.portfolioCompanies)),
    managementFees |-> c.totalMgmtFee ]

FundResults(c, a) ==
  [ null |-> FALSE,
    moics |-> a.moics,
    irrs |-> a.irrs,
    meanMoic |-> MeanMoic(a.moics),
    meanIrr |-> MeanIrr(a.irrs),
    investments |-> a.allInvestments,
    paidIn |-> RDiv(a.paidInTotal, R(c.numSimulations)),
    distributed |-> RDiv(a.distributedTotal, R(c.numSimulations)),
    numInvestments |-> RDiv(R(Len(a.allInvestments)), R(c.numSimulations)),
    managementFees |-> c.totalMgmtFee ]

-----------------------------------------------------------------------------
(* The store and App states a run can be started from *)

\* Portfolio companies: entered through the form (checkSize > 0,
\* portfolio-manager.tsx:71-95) or loaded from a file, which loadPortfolio
\* stores unvalidated (store.ts:414-428)
CompanyPool ==
  << [id |-> "c1", stage |-> "Seed", checkSize |-> R(1)],
     [id |-> "c2", stage |-> "Series C", checkSize |-> R(2)],
     [id |-> "c3", stage |-> "Pre-Seed", checkSize |-> R(-1)] >>

\* the lists of pool companies, in pool order, of at most MaxCompanies
CompanyLists ==
  { SelectSeq(CompanyPool, LAMBDA co : co.id \in ids) :
      ids \in { x \in SUBSET {"c1", "c2", "c3"} : Cardinality(x) <= MaxCompanies } }

\* numSimulations: the slider gives >= 1 (fund-parameters.tsx:156-167),
\* importParameters stores any number (store.ts:357)
NumSimulationsValues == (-1)..MaxSims

\* the base maps of the engine, and the sets of maps to vary them with
BaseProb == DefaultProbAdvancement
BaseDilution == [k \in AllKeys |-> Range(20, 20)]
BaseExit == CHOOSE e \in ExitMaps : DOMAIN e = AllStages
BaseLoss == DefaultLossProbabilities
AllAdvance == [k \in AllKeys |-> 100]

EngineConfig(p, d, e, l) ==
  [probAdvancement |-> p, dilution |-> d, exitValuations |-> e, lossProbabilities |-> l]

\* the engine's maps: each map varied alone, from the base maps and from the
\* maps whose investments all reach IPO
EngineConfigs ==
  { EngineConfig(p, BaseDilution, BaseExit, BaseLoss) : p \in ProbMaps }
  \cup { EngineConfig(p, d, BaseExit, BaseLoss) : p \in {BaseProb, AllAdvance}, d \in DilutionMaps }
  \cup { EngineConfig(p, BaseDilution, e, BaseLoss) : p \in {BaseProb, AllAdvance}, e \in ExitMaps }
  \cup { EngineConfig(p, BaseDilution, BaseExit, l) : p \in {BaseProb, AllAdvance}, l \in LossMaps }

\* store.ts:213-233, the initial valuations and checkSizes
DefaultValuations ==
  [s \in {"Pre-Seed", "Seed", "Series A", "Series B"} |->
     CASE s = "Pre-Seed" -> Range(3, 6)
       [] s = "Seed" -> Range(8, 15)
       [] s = "Series A" -> Range(40, 80)
       [] s = "Series B" -> Range(100, 150)]

DefaultCheckSizes ==
  [s \in {"Pre-Seed", "Seed", "Series A", "Series B"} |->
     CASE s = "Pre-Seed" -> <<R(1), Q(3, 2)>>
       [] s = "Seed" -> Range(2, 5)
       [] s = "Series A" -> Range(5, 10)
       [] s = "Series B" -> Range(5, 10)]

\* store.ts:180-185, the initial stageAllocations
DefaultStageAllocations ==
  [s \in {"Pre-Seed", "Seed", "Series A", "Series B"} |->
     CASE s = "Pre-Seed" -> 20
       [] s = "Seed" -> 60
       [] s = "Series A" -> 10
       [] s = "Series B" -> 10]

\* Fund setups: initialStage, the allocations App's effect leaves for it
\* (part_000:565-599), and the capital (setFundSize, importParameters)
FundSetups ==
  { [ initialStage |-> "Series B",
      stageAllocations |-> [s \in DOMAIN DefaultStageAllocations |->
                              IF s = "Series B" THEN 100 ELSE 0],
      deployableCapital |-> R(8), totalMgmtFee |-> R(2) ],
    [ initialStage |-> "Series B",
      stageAllocations |-> [s \in DOMAIN DefaultStageAllocations |->
                              IF s = "Series B" THEN 100 ELSE 0],
      deployableCapital |-> R(4), totalMgmtFee |-> R(1) ],
    [ initialStage |-> "Seed",
      stageAllocations |-> [s \in DOMAIN DefaultStageAllocations |->
                              CASE s = "Pre-Seed" -> 0
                                [] s = "Seed" -> 60
                                [] s = "Series A" -> 10
                                [] s = "Series B" -> 30],
      deployableCapital |-> Q(4, 5), totalMgmtFee |-> Q(1, 5) ],
    [ initialStage |-> "Pre-Seed",
      stageAllocations |-> DefaultStageAllocations,
      deployableCapital |-> R(0), totalMgmtFee |-> R(0) ] }

StoreOf(e, f, n, portfolio, companies) ==
  [ isSimulating |-> FALSE,
    simulationProgress |-> 0,
    simulationResults |-> Null,
    portfolioSimulationResults |-> Null,
    numSimulations |-> n,
    isPortfolioMode |-> portfolio,
    portfolioCompanies |-> companies,
    probAdvancement |-> e.probAdvancement,
    dilution |-> e.dilution,
    exitValuations |-> e.exitValuations,
    lossProbabilities |-> e.lossProbabilities,
    initialStage |-> f.initialStage,
    stageAllocations |-> f.stageAllocations,
    valuations |-> DefaultValuations,
    checkSizes |-> DefaultCheckSizes,
    deployableCapital |-> f.deployableCapital,
    totalMgmtFee |-> f.totalMgmtFee ]

DefaultFundSetup ==
  [ initialStage |-> "Pre-Seed",
    stageAllocations |-> DefaultStageAllocations,
    deployableCapital |-> R(80), totalMgmtFee |-> R(20) ]

\* simulator.tsx:291, the dust threshold 0.1
DustThreshold == Q(1, 10)

\* the most investments one run of a fund setup generates: a stage's budget
\* over its smallest check size, rounded up, and one for a clipped check
RECURSIVE CeilDiv(_, _)
CeilDiv(a, b) == IF RLe(a, R(0)) THEN 0 ELSE 1 + CeilDiv(RSub(a, b), b)

RECURSIVE BudgetedInvestments(_, _)
BudgetedInvestments(f, k) ==
  IF k > Len(stages) THEN 0
  ELSE LET budget == RMul(Q(f.stageAllocations[stages[k]], 100), f.deployableCapital)
       IN  (IF k < IndexOf(stages, f.initialStage) \/ RLt(budget, DustThreshold) THEN 0
            ELSE CeilDiv(budget, DefaultCheckSizes[stages[k]][1]))
           + BudgetedInvestments(f, k + 1)

StoreStates ==
  { StoreOf(e, DefaultFundSetup, n, TRUE, companies) :
      e \in EngineConfigs,
      <<n, companies>> \in { x \in NumSimulationsValues \X CompanyLists :
                               x[1] * Len(x[2]) <= MaxInvestments } }
  \cup
  { StoreOf(e, f, n, FALSE, <<>>) :
      e \in EngineConfigs,
      <<n, f>> \in { x \in NumSimulationsValues \X FundSetups :
                       x[1] * BudgetedInvestments(x[2], 1) <= MaxInvestments } }

\* part_000:479-494, a follow-on config in App's state
FollowOnState(selected, avgVal) ==
  [defined |-> TRUE, selected |-> selected, avgVal |-> avgVal]

\* the pairs <<followOn, followOnAB>> App can hold: nothing ticked, c1 ticked
\* for Seed to Series A, c1 ticked for both
AppStates ==
  { <<FollowOnState({}, R(10)), FollowOnState({}, R(10))>>,
    <<FollowOnState({"c1"}, R(0)), FollowOnState({}, R(10))>>,
    <<FollowOnState({"c1"}, R(20)), FollowOnState({"c1"}, R(30))>> }

NoClosure == [null |-> TRUE]
NoAcc == [null |-> TRUE]
NoRun == [null |-> TRUE]
NoInv == [null |-> TRUE]

\* the draws are not recorded / the record of an invocation that drew nothing yet
NotRecorded == [on |-> FALSE, seq |-> <<>>]
Recorded == [on |-> TRUE, seq |-> <<>>]

\* the invocation consumes the draws ds
Drawn(ds) == draws' = IF draws.on THEN [draws EXCEPT !.seq = @ \o ds] ELSE draws

Init ==
  /\ store \in StoreStates
  /\ \E a \in AppStates :
       /\ followOn = a[1]
       /\ followOnAB = a[2]
       /\ a[1].selected \subseteq {store.portfolioCompanies[k].id :
                                     k \in 1..Len(store.portfolioCompanies)}
  /\ toast = "none"
  /\ entry = "none"
  /\ cl = NoClosure
  /\ currentStep = 0
  /\ pc = "idle"
  /\ sim = 0
  /\ acc = NoAcc
  /\ run = NoRun
  /\ inv = NoInv
  /\ draws = NotRecorded

-----------------------------------------------------------------------------
(* Starting a run and the progress timer *)

\* simulator.tsx:74 and part_000:212
totalSteps == 10

\* What the step callbacks close over: SimulatorControl's render values
\* (simulator.tsx:9-35) or the getState() snapshot (part_000:208)
Closure(st, fo, foAB) ==
  [ numSimulations |-> st.numSimulations,
    isPortfolioMode |-> st.isPortfolioMode,
    portfolioCompanies |-> st.portfolioCompanies,
    probAdvancement |-> st.probAdvancement,
    dilution |-> st.dilution,
    exitValuations |-> st.exitValuations,
    lossProbabilities |-> st.lossProbabilities,
    initialStage |-> st.initialStage,
    stageAllocations |-> st.stageAllocations,
    valuations |-> st.valuations,
    checkSizes |-> st.checkSizes,
    deployableCapital |-> st.deployableCapital,
    totalMgmtFee |-> st.totalMgmtFee,
    followOn |-> StoreFollowOn(st, fo),
    followOnAB |-> StoreFollowOn(st, foAB) ]

engineVars == <<sim, acc, run, inv>>
appVars == <<followOn, followOnAB>>

StartRun(from) ==
  /\ store' = [store EXCEPT !.isSimulating = TRUE, !.simulationProgress = 0]
  /\ cl' = Closure(store, followOn, followOnAB)
  /\ entry' = from
  /\ currentStep' = 0
  /\ pc' = "timer"
  /\ draws' = [draws EXCEPT !.seq = <<>>]
  /\ UNCHANGED <<toast, engineVars, appVars>>

\* simulator.tsx:413 and part_000:1573, disabled={isSimulating}, and
\* part_000:209, if (store.isSimulating) return: a Run request does nothing
RunNeverDisabled(st) == FALSE
RunDisabled(st) == st.isSimulating

\* simulator.tsx:399-416, the SimulatorControl button (disabled while simulating)
runSimulation ==
  /\ ~RunDisabled(store)
  /\ StartRun("control")

\* part_000:207-213 and 427
runSimulationFromApp ==
  /\ ~RunDisabled(store)
  /\ StartRun("app")

\* Math.min((currentStep / totalSteps) * 100, 100)
ProgressOverTwenty(step) == IF step * 5 < 100 THEN step * 5 ELSE 100
ProgressAt(step) == IF step * 10 < 100 THEN step * 10 ELSE 100

\* simulator.tsx:77-82, a timer step before the last
simulationStep ==
  /\ pc = "timer"
  /\ currentStep + 1 < totalSteps
  /\ currentStep' = currentStep + 1
  /\ store' = [store EXCEPT !.simulationProgress = ProgressAt(currentStep + 1)]
  /\ UNCHANGED <<toast, entry, cl, pc, engineVars, appVars, draws>>

\* simulator.tsx:85, portfolioCompanies.length === 0
NeverRejected(c) == FALSE
RejectedRun(c) == c.isPortfolioMode /\ Len(c.portfolioCompanies) = 0

Finished == /\ entry' = "none"
            /\ cl' = NoClosure
            /\ currentStep' = 0
            /\ pc' = "idle"
            /\ sim' = 0
            /\ acc' = NoAcc
            /\ run' = NoRun
            /\ inv' = NoInv

\* simulator.tsx:84-89 and part_000:224-228: the last timer step of a
\* portfolio run with no company
rejectRun ==
  /\ pc = "timer"
  /\ currentStep + 1 = totalSteps
  /\ RejectedRun(cl)
  /\ store' = [store EXCEPT !.simulationProgress = ProgressAt(currentStep + 1),
                            !.isSimulating = FALSE]
  /\ toast' = "Please add at least one portfolio company"
  /\ Finished
  /\ UNCHANGED <<appVars, draws>>

\* simulator.tsx:92-96 and 267-271: the accumulators of an invocation, declared
\* in the step callback; st is the store the invocation runs on
CarriedAccumulators(st) ==
  LET earlier == IF st.isPortfolioMode THEN st.portfolioSimulationResults
                 ELSE st.simulationResults
  IN  [allInvestments |-> IF earlier = Null THEN <<>> ELSE earlier.investments,
       moics |-> <<>>, irrs |-> <<>>,
       paidInTotal |-> R(0), distributedTotal |-> R(0)]
FreshAccumulators(st) ==
  [allInvestments |-> <<>>, moics |-> <<>>, irrs |-> <<>>,
   paidInTotal |-> R(0), distributedTotal |-> R(0)]

\* simulator.tsx:92-98 and 267-273: the last timer step starts the computation
beginComputation ==
  /\ pc = "timer"
  /\ currentStep + 1 = totalSteps
  /\ ~RejectedRun(cl)
  /\ currentStep' = currentStep + 1
  /\ store' = [store EXCEPT !.simulationProgress = ProgressAt(currentStep + 1)]
  /\ acc' = FreshAccumulators(store)
  /\ sim' = 0
  /\ pc' = "simLoop"
  /\ UNCHANGED <<toast, entry, cl, run, inv, appVars, draws>>

-----------------------------------------------------------------------------
(* The run loop *)

\* simulator.tsx:38-39
validStages(c) == SubSeq(stages, IndexOf(stages, c.initialStage), Len(stages))

\* simulator.tsx:98-101 and 273-275: the next run starts
beginRun ==
  /\ pc = "simLoop"
  /\ sim < cl.numSimulations
  /\ run' = [simInvestments |-> <<>>, paidIn |-> R(0), distributed |-> R(0),
             k |-> 1, allocation |-> R(0), deployedInStage |-> R(0),
             investmentId |-> 1]
  /\ pc' = IF cl.isPortfolioMode THEN "companyLoop" ELSE "stageAllocLoop"
  /\ UNCHANGED <<store, toast, entry, cl, currentStep, sim, acc, inv, appVars, draws>>

\* simulator.tsx:103-119: the next company of the run
nextCompany ==
  /\ pc = "companyLoop"
  /\ run.k <= Len(cl.portfolioCompanies)
  /\ inv' = NewPortfolioInvestment(cl.portfolioCompanies[run.k])
  /\ pc' = IF inv'.i <= 5 THEN "stageLoop" ELSE "exit"
  /\ UNCHANGED <<store, toast, entry, cl, currentStep, sim, acc, run, appVars, draws>>

\* simulator.tsx:138, 157 and 311: dilution[key] is read by the iteration that
\* advances the investment v to w, a TypeError when there is no dilution map
ThrowsTypeError(c, v, w) == c.dilution = NoMap /\ w.currentStage # v.currentStage

\* simulator.tsx:168-172 and 315-317: the break that ends the stage loop, w
\* being the investment after the iteration
RetryUntilIPO(w) == IF w.currentStage = "IPO" THEN "exit" ELSE "stageLoop"
AfterIteration(w) == IF w.looping THEN "stageLoop" ELSE "exit"

\* simulator.tsx:120-174
portfolioTransition ==
  /\ pc = "stageLoop"
  /\ cl.isPortfolioMode
  /\ \E r \in PercentDraws, uDil \in UnitDraws, uExit \in UnitDraws :
       /\ inv' = PortfolioStageStep(cl, cl.followOn, cl.followOnAB, inv, r, uDil, uExit)
       /\ ~ThrowsTypeError(cl, inv, inv')
       /\ Drawn(PortfolioStageDraws(inv, inv', r, uDil, uExit))
  /\ pc' = AfterIteration(inv')
  /\ UNCHANGED <<store, toast, entry, cl, currentStep, sim, acc, run, appVars>>

\* simulator.tsx:175-197
portfolioExit ==
  /\ pc = "exit"
  /\ cl.isPortfolioMode
  /\ \E r2 \in PercentDraws, uExit \in UnitDraws :
       /\ inv' = PortfolioExit(cl, inv, r2, uExit)
       /\ Drawn(PortfolioExitDraws(cl, inv, r2, uExit))
  /\ run' = [run EXCEPT !.simInvestments = Append(@, InvestmentOf(sim, inv')),
                        !.paidIn = RAdd(@, inv'.entryAmount),
                        !.distributed = RAdd(@, inv'.exitAmount),
                        !.k = @ + 1]
  /\ pc' = "companyLoop"
  /\ UNCHANGED <<store, toast, entry, cl, currentStep, sim, acc, appVars>>

\* simulator.tsx:199-206: the portfolio run ends
endPortfolioRun ==
  /\ pc = "companyLoop"
  /\ run.k > Len(cl.portfolioCompanies)
  /\ acc' = [allInvestments |-> acc.allInvestments \o run.simInvestments,
             moics |-> Append(acc.moics, RunMoic(run.paidIn, run.distributed)),
             irrs |-> Append(acc.irrs, PortfolioIrr(run.paidIn, run.distributed)),
             paidInTotal |-> RAdd(acc.paidInTotal, run.paidIn),
             distributedTotal |-> RAdd(acc.distributedTotal, run.distributed)]
  /\ sim' = sim + 1
  /\ inv' = NoInv
  /\ pc' = "simLoop"
  /\ UNCHANGED <<store, toast, entry, cl, currentStep, run, appVars, draws>>

\* simulator.tsx:277-279: the next stage of the fund's valid stages
nextStage ==
  /\ pc = "stageAllocLoop"
  /\ run.k <= Len(validStages(cl))
  /\ LET stage == validStages(cl)[run.k]
     IN  run' = [run EXCEPT
                   !.allocation = RMul(RDiv(R(cl.stageAllocations[stage]), R(100)),
                                       cl.deployableCapital),
                   !.deployedInStage = R(0)]
  /\ pc' = "genLoop"
  /\ UNCHANGED <<store, toast, entry, cl, currentStep, sim, acc, inv, appVars, draws>>

\* simulator.tsx:287-290: the sampled check size, at most what is left of the
\* stage's allocation
UnclippedCheckSize(sampled, allocation, deployedInStage) == sampled
ClippedCheckSize(sampled, allocation, deployedInStage) ==
  MathMin(sampled, RSub(allocation, deployedInStage))

\* simulator.tsx:281-299: one more investment of the stage, or the break on a
\* check size under the threshold
generateInvestment ==
  /\ pc = "genLoop"
  /\ RLt(run.deployedInStage, run.allocation)
  \* the model follows the loop for MaxInvestments + 1 iterations of a run
  /\ run.investmentId <= MaxInvestments + 1
  /\ \E uVal \in UnitDraws, uCheck \in UnitDraws :
       LET stage == validStages(cl)[run.k]
           valRange == Lookup(cl.valuations, stage, Range(1, 10))
           checkRange == Lookup(cl.checkSizes, stage, <<Q(1, 2), R(2)>>)
           valuation == Sample(valRange, uVal)
           checkSize == ClippedCheckSize(Sample(checkRange, uCheck),
                                         run.allocation, run.deployedInStage)
       IN  /\ Drawn(<<uVal, uCheck>>)
           /\ IF RLt(checkSize, DustThreshold)
              THEN /\ run' = [run EXCEPT !.k = @ + 1]
                   /\ inv' = inv
                   /\ pc' = "stageAllocLoop"
              ELSE /\ run' = [run EXCEPT !.deployedInStage = RAdd(@, checkSize)]
                   /\ inv' = NewFundInvestment(ToString(run.investmentId), stage,
                                               checkSize, valuation)
                   /\ pc' = "stageLoop"
  /\ UNCHANGED <<store, toast, entry, cl, currentStep, sim, acc, appVars>>

\* simulator.tsx:281: the stage's allocation is deployed
stageDeployed ==
  /\ pc = "genLoop"
  /\ ~RLt(run.deployedInStage, run.allocation)
  /\ run' = [run EXCEPT !.k = @ + 1]
  /\ pc' = "stageAllocLoop"
  /\ UNCHANGED <<store, toast, entry, cl, currentStep, sim, acc, inv, appVars, draws>>

\* simulator.tsx:303-318
fundTransition ==
  /\ pc = "stageLoop"
  /\ ~cl.isPortfolioMode
  /\ \E r \in PercentDraws, uDil \in UnitDraws :
       /\ inv' = FundStageStep(cl, inv, r, uDil)
       /\ ~ThrowsTypeError(cl, inv, inv')
       /\ Drawn(FundStageDraws(inv, inv', r, uDil))
  /\ pc' = AfterIteration(inv')
  /\ UNCHANGED <<store, toast, entry, cl, currentStep, sim, acc, run, appVars>>

\* simulator.tsx:320-339
fundExit ==
  /\ pc = "exit"
  /\ ~cl.isPortfolioMode
  /\ \E r2 \in PercentDraws, uExit \in UnitDraws :
       /\ inv' = FundExit(cl, inv, r2, uExit)
       /\ Drawn(FundExitDraws(cl, inv, r2, uExit))
  /\ run' = [run EXCEPT !.simInvestments = Append(@, InvestmentOf(sim + 1, inv')),
                        !.investmentId = @ + 1]
  /\ pc' = "genLoop"
  /\ UNCHANGED <<store, toast, entry, cl, currentStep, sim, acc, appVars>>

RECURSIVE SumEntry(_)
SumEntry(invs) == IF invs = <<>> THEN R(0)
                  ELSE RAdd(Head(invs).entryAmount, SumEntry(Tail(invs)))
RECURSIVE SumExit(_)
SumExit(invs) == IF invs = <<>> THEN R(0)
                 ELSE RAdd(Head(invs).exitAmount, SumExit(Tail(invs)))

\* simulator.tsx:342-357: the fund run ends
endFundRun ==
  /\ pc = "stageAllocLoop"
  /\ run.k > Len(validStages(cl))
  /\ LET paidIn == SumEntry(run.simInvestments)
         distributed == SumExit(run.simInvestments)
         moic == RunMoic(paidIn, distributed)
     IN  /\ run' = [run EXCEPT !.paidIn = paidIn, !.distributed = distributed]
         /\ acc' = [allInvestments |-> acc.allInvestments \o run.simInvestments,
                    moics |-> Append(acc.moics, moic),
                    irrs |-> Append(acc.irrs, FundIrr(moic)),
                    paidInTotal |-> RAdd(acc.paidInTotal, paidIn),
                    distributedTotal |-> RAdd(acc.distributedTotal, distributed)]
  /\ sim' = sim + 1
  /\ inv' = NoInv
  /\ pc' = "simLoop"
  /\ UNCHANGED <<store, toast, entry, cl, currentStep, appVars, draws>>

\* simulator.tsx:208-230 and 360-391: the results are published and the run ends
publish ==
  /\ pc = "simLoop"
  /\ ~(sim < cl.numSimulations)
  /\ store' = IF cl.isPortfolioMode
              THEN [store EXCEPT !.portfolioSimulationResults = PortfolioResults(cl, acc),
                                 !.isSimulating = FALSE]
              ELSE [store EXCEPT !.simulationResults = FundResults(cl, acc),
                                 !.isSimulating = FALSE]
  /\ toast' = IF cl.isPortfolioMode
              THEN "Portfolio simulation completed successfully!"
              ELSE "Simulation completed successfully!"
  /\ Finished
  /\ UNCHANGED <<appVars, draws>>

\* The advancement that reads dilution[key] throws. SimulatorControl catches
\* it, reports the failure and clears isSimulating in the finally
\* (simulator.tsx:225-230, 386-391). runSimulationFromApp has no try
\* (part_000:214-428): the step callback ends with the exception and its
\* store.setIsSimulating(false) is not reached.
computationThrows ==
  /\ pc = "stageLoop"
  /\ \E r \in PercentDraws, uDil \in UnitDraws, uExit \in UnitDraws :
       ThrowsTypeError(cl, inv,
                       IF cl.isPortfolioMode
                       THEN PortfolioStageStep(cl, cl.followOn, cl.followOnAB, inv,
                                               r, uDil, uExit)
                       ELSE FundStageStep(cl, inv, r, uDil))
  /\ store' = IF entry = "control" THEN [store EXCEPT !.isSimulating = FALSE] ELSE store
  /\ toast' = IF entry # "control" THEN toast
              ELSE IF cl.isPortfolioMode
              THEN "Simulation failed. Please check your companies and try again."
              ELSE "Simulation failed. Please check your parameters and try again."
  /\ Finished
  /\ UNCHANGED <<appVars, draws>>

\* store.ts:387-389
removePortfolioCompany ==
  /\ \E k \in 1..Len(store.portfolioCompanies) :
       store' = [store EXCEPT !.portfolioCompanies =
                   SelectSeq(@, LAMBDA co : co.id # store.portfolioCompanies[k].id)]
  /\ UNCHANGED <<toast, entry, cl, currentStep, pc, engineVars, appVars, draws>>

\* no run has ended yet
Fresh == toast = "none"

engine ==
  \/ simulationStep
  \/ rejectRun
  \/ beginComputation
  \/ beginRun
  \/ nextCompany
  \/ portfolioTransition
  \/ portfolioExit
  \/ endPortfolioRun
  \/ publish

\* the first run after the page is loaded
Next ==
  \/ Fresh /\ runSimulation
  \/ Fresh /\ runSimulationFromApp
  \/ simulationStep
  \/ rejectRun
  \/ beginComputation
  \/ beginRun
  \/ nextCompany
  \/ portfolioTransition
  \/ portfolioExit
  \/ endPortfolioRun
  \/ nextStage
  \/ generateInvestment
  \/ stageDeployed
  \/ fundTransition
  \/ fundExit
  \/ endFundRun
  \/ publish

Spec == Init /\ [][Next]_vars

-----------------------------------------------------------------------------
(* Portfolio runs one after another, companies removed in between *)

\* the portfolio page with one company or none, one run per invocation
InitRerun ==
  /\ store \in { StoreOf(EngineConfig(AllAdvance, BaseDilution, BaseExit, BaseLoss),
                         DefaultFundSetup, 1, TRUE, companies) :
                   companies \in { l \in CompanyLists : Len(l) <= 1 } }
  /\ followOn = FollowOnState({}, R(10))
  /\ followOnAB = FollowOnState({}, R(10))
  /\ toast = "none"
  /\ entry = "none"
  /\ cl = NoClosure
  /\ currentStep = 0
  /\ pc = "idle"
  /\ sim = 0
  /\ acc = NoAcc
  /\ run = NoRun
  /\ inv = NoInv
  /\ draws = NotRecorded

NextRerun ==
  \/ runSimulation
  \/ runSimulationFromApp
  \/ removePortfolioCompany
  \/ engine

SpecRerun == InitRerun /\ [][NextRerun]_vars

-----------------------------------------------------------------------------
(* Store updates while a run is under way *)

\* What a run holds of the store after a set(): SimulatorControl's callbacks
\* keep the values of the render they were created in (simulator.tsx:9-35),
\* runSimulationFromApp keeps the state object getState() returned
\* (part_000:208), and every update builds new maps and lists (store.ts:251-255,
\* 378-389)
LiveSnapshot(c, st) ==
  IF c = NoClosure THEN c ELSE Closure(st, followOn, followOnAB)
SnapshotAfterSet(c, st) == c

\* a set() of the store while isSimulating is true
SetDuringRun(newStore) ==
  /\ store.isSimulating
  /\ store' = newStore
  /\ cl' = SnapshotAfterSet(cl, newStore)
  /\ UNCHANGED <<toast, entry, currentStep, pc, engineVars, appVars, draws>>

\* store.ts:251-256
updateProbAdvancement ==
  \E value \in {0, 100} :
    SetDuringRun([store EXCEPT !.probAdvancement =
                    [x \in DOMAIN @ \cup {"Series C to IPO"} |->
                       IF x = "Series C to IPO" THEN value ELSE @[x]]])

\* store.ts:177
setNumSimulations ==
  \E num \in 1..MaxSims : SetDuringRun([store EXCEPT !.numSimulations = num])

\* store.ts:378-386, the company taking its id from the pool
addPortfolioCompany ==
  /\ Len(store.portfolioCompanies) < MaxCompanies
  /\ \A k \in 1..Len(store.portfolioCompanies) : store.portfolioCompanies[k] # CompanyPool[1]
  /\ SetDuringRun([store EXCEPT !.portfolioCompanies = Append(@, CompanyPool[1])])

\* store.ts:400
setIsPortfolioMode ==
  \E value \in BOOLEAN : SetDuringRun([store EXCEPT !.isPortfolioMode = value])

\* store.ts:346-367, with the parameters of a fund that invests 100% at
\* Series B, two simulations, no company and every transition certain
importParameters ==
  SetDuringRun([store EXCEPT !.initialStage = "Series B",
                             !.numSimulations = 2,
                             !.stageAllocations = [x \in DOMAIN @ |->
                                                     IF x = "Series B" THEN 100 ELSE 0],
                             !.probAdvancement = AllAdvance,
                             !.dilution = BaseDilution,
                             !.portfolioCompanies = <<>>,
                             !.totalMgmtFee = R(2),
                             !.deployableCapital = R(8)])

InitEdit ==
  /\ store \in
       { StoreOf(EngineConfig(BaseProb, BaseDilution, BaseExit, BaseLoss),
                 f, 1, portfolio, SelectSeq(CompanyPool, LAMBDA co : co.id = "c2")) :
           f \in { x \in FundSetups : x.deployableCapital = R(4) },
           portfolio \in BOOLEAN }
  /\ followOn = FollowOnState({}, R(10))
  /\ followOnAB = FollowOnState({}, R(10))
  /\ toast = "none"
  /\ entry = "none"
  /\ cl = NoClosure
  /\ currentStep = 0
  /\ pc = "idle"
  /\ sim = 0
  /\ acc = NoAcc
  /\ run = NoRun
  /\ inv = NoInv
  /\ draws = Recorded

\* one invocation, with store updates while it is under way
NextEdit ==
  \/ Fresh /\ runSimulation
  \/ Fresh /\ runSimulationFromApp
  \/ updateProbAdvancement
  \/ setNumSimulations
  \/ addPortfolioCompany
  \/ store.isSimulating /\ removePortfolioCompany
  \/ setIsPortfolioMode
  \/ importParameters
  \/ simulationStep
  \/ beginComputation
  \/ beginRun
  \/ nextCompany
  \/ portfolioTransition
  \/ portfolioExit
  \/ endPortfolioRun
  \/ nextStage
  \/ generateInvestment
  \/ stageDeployed
  \/ fundTransition
  \/ fundExit
  \/ endFundRun
  \/ publish

SpecEdit == InitEdit /\ [][NextEdit]_vars

-----------------------------------------------------------------------------
(* Runs on imported parameters *)

\* store.ts:346-367: the store after importParameters of the decoded share
\* string data. A field the string lacks is stored as undefined; the derived
\* capital is recomputed from the imported fund size and fees.
importedStore(st, data) ==
  LET fee == RMul(RMul(data.fundSize, RDiv(data.managementFeePct, R(100))),
                  data.managementFeeYears)
  IN  [st EXCEPT !.initialStage = data.initialStage,
                 !.numSimulations = data.numSimulations,
                 !.stageAllocations = data.stageAllocations,
                 !.valuations = data.valuations,
                 !.checkSizes = data.checkSizes,
                 !.probAdvancement = data.probAdvancement,
                 !.dilution = IF "dilution" \in DOMAIN data THEN data.dilution ELSE NoMap,
                 !.portfolioCompanies = data.portfolioCompanies,
                 !.totalMgmtFee = fee,
                 !.deployableCapital = RSub(data.fundSize, fee)]

\* a share string as exportParameters writes it (store.ts:325-344): a fund of
\* 10 with fees of 2% over 10 years, all of it for Series B in checks of 5 at
\* a valuation of 100, and company c1
ExportedParameters ==
  [ fundSize |-> R(10),
    managementFeePct |-> R(2),
    managementFeeYears |-> R(10),
    initialStage |-> "Series B",
    numSimulations |-> 1,
    stageAllocations |-> [s \in DOMAIN DefaultStageAllocations |->
                            IF s = "Series B" THEN 100 ELSE 0],
    valuations |-> [DefaultValuations EXCEPT !["Series B"] = Range(100, 100)],
    checkSizes |-> [DefaultCheckSizes EXCEPT !["Series B"] = Range(5, 5)],
    probAdvancement |-> BaseProb,
    dilution |-> BaseDilution,
    portfolioCompanies |-> SelectSeq(CompanyPool, LAMBDA co : co.id = "c1") ]

\* JSON.parse reads 1e999 as Infinity
Infinity == Q(1, 0)

\* the share strings: the exported one, one without the dilution field, and
\* one with "fundSize": 1e999 and a negative fee percentage
ShareStrings ==
  { ExportedParameters,
    [f \in DOMAIN ExportedParameters \ {"dilution"} |-> ExportedParameters[f]],
    [ExportedParameters EXCEPT !.fundSize = Infinity,
                               !.managementFeePct = R(-1),
                               !.managementFeeYears = R(1)] }

\* a freshly loaded page in either mode, after the import of a share string
InitImport ==
  /\ store \in
       { importedStore(StoreOf(EngineConfig(BaseProb, BaseDilution, BaseExit, BaseLoss),
                               DefaultFundSetup, 1, portfolio, <<>>), data) :
           data \in ShareStrings, portfolio \in BOOLEAN }
  /\ followOn = FollowOnState({}, R(10))
  /\ followOnAB = FollowOnState({}, R(10))
  /\ toast = "none"
  /\ entry = "none"
  /\ cl = NoClosure
  /\ currentStep = 0
  /\ pc = "idle"
  /\ sim = 0
  /\ acc = NoAcc
  /\ run = NoRun
  /\ inv = NoInv
  /\ draws = NotRecorded

NextImport ==
  \/ Fresh /\ runSimulation
  \/ Fresh /\ runSimulationFromApp
  \/ simulationStep
  \/ beginComputation
  \/ beginRun
  \/ nextCompany
  \/ portfolioTransition
  \/ portfolioExit
  \/ endPortfolioRun
  \/ nextStage
  \/ generateInvestment
  \/ stageDeployed
  \/ fundTransition
  \/ fundExit
  \/ endFundRun
  \/ publish
  \/ computationThrows

SpecImport == InitImport /\ [][NextImport]_vars

-----------------------------------------------------------------------------
(* The stage allocations: the sliders, the initial stage and App's effect *)

\* the values a slider gives (part_000:1298-1306: 0 to 100 in steps of 5)
SliderValues == {0, 5, 60, 100}

\* store.ts:196-201: the sum of the allocations of the valid stages before
\* the last, from the k-th on
RECURSIVE sumAllocations(_, _, _)
sumAllocations(allocations, valid, k) ==
  IF k >= Len(valid) THEN 0
  ELSE allocations[valid[k]] + sumAllocations(allocations, valid, k + 1)

\* store.ts:187-210: the allocations after updateStageAllocation(stage, value)
updatedAllocations(st, stage, value) ==
  LET valid == validStages(st)
      lastStage == valid[Len(valid)]
      newAllocations == [st.stageAllocations EXCEPT ![stage] = value]
      remainder == 100 - sumAllocations(newAllocations, valid, 1)
  IN  [newAllocations EXCEPT ![lastStage] = IF remainder > 0 THEN remainder ELSE 0]

\* store.ts:187-210, called by a slider (part_000:601-606), which the last
\* valid stage does not have (part_000:1293-1306)
updateStageAllocation ==
  /\ pc = "idle"
  /\ \E k \in 1..(Len(validStages(store)) - 1), value \in SliderValues :
       store' = [store EXCEPT !.stageAllocations =
                   updatedAllocations(store, validStages(store)[k], value)]
  /\ UNCHANGED <<toast, entry, cl, currentStep, pc, engineVars, appVars, draws>>

\* store.ts:150-155, called by the selector (fund-parameters.tsx:80)
setInitialStage ==
  /\ pc = "idle"
  /\ \E stage \in {stages[k] : k \in 1..Len(stages)} :
       /\ stage # store.initialStage
       /\ store' = [store EXCEPT !.initialStage = stage]
  /\ UNCHANGED <<toast, entry, cl, currentStep, pc, engineVars, appVars, draws>>

\* part_000:587-589: Math.min(defaultValue, remaining)
KeepValue(value, remaining) == value
ClipToRemaining(value, remaining) == IF value < remaining THEN value ELSE remaining

\* part_000:579-592: the valid stages from the i-th on take their share of
\* what remains, the last all of it
RECURSIVE shareRemaining(_, _, _, _)
shareRemaining(allocations, valid, i, remaining) ==
  IF i = Len(valid) THEN [allocations EXCEPT ![valid[i]] = remaining]
  ELSE LET value == ClipToRemaining(allocations[valid[i]], remaining)
       IN  shareRemaining([allocations EXCEPT ![valid[i]] = value], valid, i + 1,
                          remaining - value)

\* part_000:568-592: newAllocations of the effect
normalisedAllocations(st) ==
  LET valid == validStages(st)
      reset == [s \in DOMAIN st.stageAllocations |->
                  IF \E i \in 1..Len(valid) : valid[i] = s
                  THEN st.stageAllocations[s] ELSE 0]
  IN  shareRemaining(reset, valid, 1, 100)

\* part_000:565-599: the effect, run after a render that changed the initial
\* stage or the allocations; it stores newAllocations when they differ
allocationEffect ==
  /\ pc = "idle"
  /\ normalisedAllocations(store) # store.stageAllocations
  /\ store' = [store EXCEPT !.stageAllocations = normalisedAllocations(store)]
  /\ UNCHANGED <<toast, entry, cl, currentStep, pc, engineVars, appVars, draws>>

\* the page as loaded (store.ts:140-185), in fund mode
InitAllocation ==
  /\ store = StoreOf(EngineConfig(BaseProb, BaseDilution, BaseExit, BaseLoss),
                     DefaultFundSetup, 1, FALSE, <<>>)
  /\ followOn = FollowOnState({}, R(10))
  /\ followOnAB = FollowOnState({}, R(10))
  /\ toast = "none"
  /\ entry = "none"
  /\ cl = NoClosure
  /\ currentStep = 0
  /\ pc = "idle"
  /\ sim = 0
  /\ acc = NoAcc
  /\ run = NoRun
  /\ inv = NoInv
  /\ draws = NotRecorded

NextAllocation ==
  \/ updateStageAllocation
  \/ setInitialStage
  \/ allocationEffect

SpecAllocation == InitAllocation /\ [][NextAllocation]_vars

-----------------------------------------------------------------------------
(* The per-simulation detail view of App *)

\* what follows the "-" of an Investment id: a company id (simulator.tsx:189)
\* or the run's investment counter (simulator.tsx:333)
IdTails ==
  {CompanyPool[k].id : k \in 1..Len(CompanyPool)} \cup {ToString(j) : j \in 1..(MaxInvestments + 1)}

\* part_000:1727-1728: parseInt(String(inv.id).split('-')[0], 10)
simIdx(x) ==
  CHOOSE j \in 0..(MaxSims + 1) : \E t \in IdTails : x.id = ToString(j) \o "-" \o t

\* Math.floor of a number at least 0; slice(0, NaN) is empty
Floor(x) == IF x.d = 0 THEN 0 ELSE x.n \div x.d

\* part_000:1724-1735 and 1741: the investments the view shows for selectedSim
DetailViewInvestments(results, selectedSim) ==
  LET invs == SelectSeq(results.investments, LAMBDA x : simIdx(x) = selectedSim)
      numToShow == Floor(results.numInvestments)
  IN  SubSeq(invs, 1, IF numToShow < Len(invs) THEN numToShow ELSE Len(invs))

\* part_000:1706-1708: the indices the selector offers
SelectableSims(st) == 1..st.numSimulations

-----------------------------------------------------------------------------
(* The MOIC histogram of App *)

\* part_000:636
binCount == 10

\* Math.min(...xs) and Math.max(...xs): Infinity and -Infinity of no argument
RECURSIVE MathMinOf(_)
MathMinOf(xs) == IF xs = <<>> THEN Q(1, 0) ELSE MathMin(Head(xs), MathMinOf(Tail(xs)))
RECURSIVE MathMaxOf(_)
MathMaxOf(xs) == IF xs = <<>> THEN Q(-1, 0)
                 ELSE LET m == MathMaxOf(Tail(xs))
                      IN  IF IsNaN(Head(xs)) \/ IsNaN(m) THEN NaN
                          ELSE IF RLt(m, Head(xs)) THEN Head(xs) ELSE m

\* part_000:648-651: Math.min(Math.floor((moic - minMoic) / binSize),
\* binCount - 1), NaN when the quotient is
binIndexOf(moic, minMoic, binSize) ==
  LET q == RDiv(RSub(moic, minMoic), binSize)
  IN  IF IsNaN(q) THEN NaN
      ELSE IF q.d = 0 THEN (IF q.n > 0 THEN R(binCount - 1) ELSE q)
      ELSE MathMin(R(q.n \div q.d), R(binCount - 1))

\* part_000:631-658: the counts of the bins, in order; a moic is counted when
\* binIndex >= 0 && binIndex < bins.length
getMoicChartData(results) ==
  IF results = Null THEN <<>>
  ELSE LET minMoic == MathMinOf(results.moics)
           maxMoic == MathMaxOf(results.moics)
           binSize == RDiv(RSub(maxMoic, minMoic), R(binCount))
       IN  [i \in 1..binCount |->
              Cardinality({k \in 1..Len(results.moics) :
                             binIndexOf(results.moics[k], minMoic, binSize) = R(i - 1)})]

RECURSIVE SumOf(_)
SumOf(counts) == IF counts = <<>> THEN 0 ELSE Head(counts) + SumOf(Tail(counts))

-----------------------------------------------------------------------------
(* The engine as a function of the configuration and the draws: the two
   simulation functions run from their first statement to their last on a
   given sequence of Math.random() values *)

IsPrefix(p, s) == Len(p) <= Len(s) /\ SubSeq(s, 1, Len(p)) = p
Rest(s, n) == SubSeq(s, n + 1, Len(s))

\* simulator.tsx:120-174, the stage loop of one company
RECURSIVE PortfolioStageLoop(_, _, _)
PortfolioStageLoop(c, v, log) ==
  IF ~(v.looping /\ v.i <= 5) THEN [inv |-> v, log |-> log]
  ELSE LET Step(d) == PortfolioStageStep(c, c.followOn, c.followOnAB, v, d[1], d[2], d[3])
           Used(d) == PortfolioStageDraws(v, Step(d), d[1], d[2], d[3])
           d == CHOOSE x \in PercentDraws \X UnitDraws \X UnitDraws : IsPrefix(Used(x), log)
       IN  PortfolioStageLoop(c, Step(d), Rest(log, Len(Used(d))))

\* simulator.tsx:103-197, the companies of one run from the k-th on
RECURSIVE PortfolioCompanyLoop(_, _, _, _, _)
PortfolioCompanyLoop(c, simIndex, k, r, log) ==
  IF k > Len(c.portfolioCompanies) THEN [run |-> r, log |-> log]
  ELSE LET staged == PortfolioStageLoop(c, NewPortfolioInvestment(c.portfolioCompanies[k]), log)
           Used(d) == PortfolioExitDraws(c, staged.inv, d[1], d[2])
           d == CHOOSE x \in PercentDraws \X UnitDraws : IsPrefix(Used(x), staged.log)
           w == PortfolioExit(c, staged.inv, d[1], d[2])
       IN  PortfolioCompanyLoop(c, simIndex, k + 1,
             [simInvestments |-> Append(r.simInvestments, InvestmentOf(simIndex, w)),
              paidIn |-> RAdd(r.paidIn, w.entryAmount),
              distributed |-> RAdd(r.distributed, w.exitAmount)],
             Rest(staged.log, Len(Used(d))))

\* simulator.tsx:98-206, the runs from simIndex on
RECURSIVE PortfolioSimLoop(_, _, _, _)
PortfolioSimLoop(c, simIndex, a, log) ==
  IF ~(simIndex < c.numSimulations) THEN a
  ELSE LET done == PortfolioCompanyLoop(c, simIndex, 1,
                     [simInvestments |-> <<>>, paidIn |-> R(0), distributed |-> R(0)], log)
           r == done.run
       IN  PortfolioSimLoop(c, simIndex + 1,
             [allInvestments |-> a.allInvestments \o r.simInvestments,
              moics |-> Append(a.moics, RunMoic(r.paidIn, r.distributed)),
              irrs |-> Append(a.irrs, PortfolioIrr(r.paidIn, r.distributed)),
              paidInTotal |-> RAdd(a.paidInTotal, r.paidIn),
              distributedTotal |-> RAdd(a.distributedTotal, r.distributed)],
             done.log)

\* simulator.tsx:91-221, the SimulationResults simulatePortfolio publishes
simulatePortfolio(c, log) ==
  PortfolioResults(c, PortfolioSimLoop(c, 0,
    [allInvestments |-> <<>>, moics |-> <<>>, irrs |-> <<>>,
     paidInTotal |-> R(0), distributedTotal |-> R(0)], log))

\* simulator.tsx:303-318, the stage loop of one fund investment
RECURSIVE FundStageLoop(_, _, _)
FundStageLoop(c, v, log) ==
  IF ~v.looping THEN [inv |-> v, log |-> log]
  ELSE LET Step(d) == FundStageStep(c, v, d[1], d[2])
           Used(d) == FundStageDraws(v, Step(d), d[1], d[2])
           d == CHOOSE x \in PercentDraws \X UnitDraws : IsPrefix(Used(x), log)
       IN  FundStageLoop(c, Step(d), Rest(log, Len(Used(d))))

\* simulator.tsx:281-339, the investments of one stage of one run
RECURSIVE FundGenerationLoop(_, _, _, _, _, _)
FundGenerationLoop(c, simIndex, stage, deployedInStage, r, log) ==
  LET allocation == RMul(RDiv(R(c.stageAllocations[stage]), R(100)), c.deployableCapital)
      valRange == Lookup(c.valuations, stage, Range(1, 10))
      checkRange == Lookup(c.checkSizes, stage, <<Q(1, 2), R(2)>>)
      valuation == Sample(valRange, log[1])
      checkSize == MathMin(Sample(checkRange, log[2]), RSub(allocation, deployedInStage))
  IN  IF ~RLt(deployedInStage, allocation) THEN [run |-> r, log |-> log]
      ELSE IF RLt(checkSize, DustThreshold) THEN [run |-> r, log |-> Rest(log, 2)]
      ELSE LET staged == FundStageLoop(c,
                           NewFundInvestment(ToString(r.investmentId), stage,
                                             checkSize, valuation),
                           Rest(log, 2))
               Used(d) == FundExitDraws(c, staged.inv, d[1], d[2])
               d == CHOOSE x \in PercentDraws \X UnitDraws : IsPrefix(Used(x), staged.log)
               w == FundExit(c, staged.inv, d[1], d[2])
           IN  FundGenerationLoop(c, simIndex, stage, RAdd(deployedInStage, checkSize),
                 [simInvestments |-> Append(r.simInvestments, InvestmentOf(simIndex + 1, w)),
                  investmentId |-> r.investmentId + 1],
                 Rest(staged.log, Len(Used(d))))

\* simulator.tsx:277-340, the stages of one run from the k-th valid stage on
RECURSIVE FundStageAllocationLoop(_, _, _, _, _)
FundStageAllocationLoop(c, simIndex, k, r, log) ==
  IF k > Len(validStages(c)) THEN [run |-> r, log |-> log]
  ELSE LET done == FundGenerationLoop(c, simIndex, validStages(c)[k], R(0), r, log)
       IN  FundStageAllocationLoop(c, simIndex, k + 1, done.run, done.log)

\* simulator.tsx:273-357, the runs from simIndex on
RECURSIVE FundSimLoop(_, _, _, _)
FundSimLoop(c, simIndex, a, log) ==
  IF ~(simIndex < c.numSimulations) THEN a
  ELSE LET done == FundStageAllocationLoop(c, simIndex, 1,
                     [simInvestments |-> <<>>, investmentId |-> 1], log)
           invs == done.run.simInvestments
           moic == RunMoic(SumEntry(invs), SumExit(invs))
       IN  FundSimLoop(c, simIndex + 1,
             [allInvestments |-> a.allInvestments \o invs,
              moics |-> Append(a.moics, moic),
              irrs |-> Append(a.irrs, FundIrr(moic)),
              paidInTotal |-> RAdd(a.paidInTotal, SumEntry(invs)),
              distributedTotal |-> RAdd(a.distributedTotal, SumExit(invs))],
             done.log)

\* simulator.tsx:266-374, the SimulationResults runStandardSimulation publishes
runStandardSimulation(c, log) ==
  FundResults(c, FundSimLoop(c, 0,
    [allInvestments |-> <<>>, moics |-> <<>>, irrs |-> <<>>,
     paidInTotal |-> R(0), distributedTotal |-> R(0)], log))

\* Invocations one after another, in either mode, with the draws of each
\* recorded
InitReplay ==
  /\ store \in
       { StoreOf(EngineConfig(BaseProb, BaseDilution, BaseExit, BaseLoss),
                 DefaultFundSetup, 2, TRUE, companies) :
           companies \in { l \in CompanyLists : Len(l) = 1 /\ l[1].id = "c2" } }
       \cup
       { StoreOf(EngineConfig(BaseProb, BaseDilution, BaseExit, BaseLoss),
                 f, 1, FALSE, <<>>) :
           f \in { x \in FundSetups : x.deployableCapital = R(4) } }
  /\ followOn = FollowOnState({}, R(10))
  /\ followOnAB = FollowOnState({}, R(10))
  /\ toast = "none"
  /\ entry = "none"
  /\ cl = NoClosure
  /\ currentStep = 0
  /\ pc = "idle"
  /\ sim = 0
  /\ acc = NoAcc
  /\ run = NoRun
  /\ inv = NoInv
  /\ draws = Recorded

\* no invocation is rejected, the company list being non-empty and never edited
NextReplay ==
  \/ runSimulation
  \/ runSimulationFromApp
  \/ simulationStep
  \/ beginComputation
  \/ beginRun
  \/ nextCompany
  \/ portfolioTransition
  \/ portfolioExit
  \/ endPortfolioRun
  \/ nextStage
  \/ generateInvestment
  \/ stageDeployed
  \/ fundTransition
  \/ fundExit
  \/ endFundRun
  \/ publish

SpecReplay == InitReplay /\ [][NextReplay]_vars

-----------------------------------------------------------------------------
(* Properties *)

\* the elements of a list
Elements(s) == {s[k] : k \in 1..Len(s)}

\* position of a stage in the fixed stage order
StageRank(s) == IndexOf(stagesSequence, s)

\* every Investment recorded so far: in the run under way, in the runs
\* accumulated, and in the results published
RecordedInvestments ==
  (IF run = NoRun THEN {} ELSE Elements(run.simInvestments))
  \cup (IF acc = NoAcc THEN {} ELSE Elements(acc.allInvestments))
  \cup (IF store.simulationResults = Null THEN {}
        ELSE Elements(store.simulationResults.investments))
  \cup (IF store.portfolioSimulationResults = Null THEN {}
        ELSE Elements(store.portfolioSimulationResults.investments))

\* the investment under way is in its stage loop or at its exit
InvestmentUnderWay == pc \in {"stageLoop", "exit"}

\* C1 (both modes): the stage an investment holds never decreases in the order
\* Pre-Seed < Seed < Series A < Series B < Series C < IPO, an iteration of the
\* stage loop leaves the stage alone or moves it to the immediately next stage,
\* the exit records the stage held, and every recorded Investment has its
\* exitStage at or after its entryStage.
C1_StagesOnlyAdvanceByOne ==
  /\ [](\A x \in RecordedInvestments : StageRank(x.exitStage) >= StageRank(x.entryStage))
  /\ [](InvestmentUnderWay => StageRank(inv.currentStage) >= StageRank(inv.entryStage))
  /\ [][/\ (pc = "stageLoop" =>
             \/ inv'.currentStage = inv.currentStage
             \/ StageRank(inv'.currentStage) = StageRank(inv.currentStage) + 1)
         /\ (pc = "exit" =>
             /\ inv'.currentStage = inv.currentStage
             /\ inv'.exitStage = inv.currentStage)]_vars

\* C1 witness: an investment that advanced two stages has been recorded, and
\* the accumulated list holds investments of both kinds of outcome
C1_Witness ==
  /\ acc # NoAcc
  /\ \E x \in Elements(acc.allInvestments) :
       StageRank(x.exitStage) >= StageRank(x.entryStage) + 2
  /\ \E y \in Elements(acc.allInvestments) : y.exitStage = y.entryStage

\* C2 as the specification states it: in Portfolio mode a company entered at
\* Seed and ticked in the Seed to Series A follow-on config has left Seed when
\* its stage loop ends, whatever the probability and the draw, and its
\* entryAmount is the config's average valuation.
C2_ForcedFollowOnAlwaysAdvances ==
  (/\ pc = "exit"
   /\ cl.isPortfolioMode
   /\ inv.entryStage = "Seed"
   /\ inv.id \in followOn.selected)
  => /\ StageRank(inv.currentStage) >= StageRank("Series A")
     /\ inv.entryAmount = followOn.avgVal

\* C3 as the specification states it: in both modes a run whose paidIn is 0
\* records moic = 0 and irr = 0.
C3_ZeroPaidInGivesZeroMoicAndIrr ==
  (/\ pc = "simLoop"
   /\ sim > 0
   /\ run.paidIn = R(0))
  => /\ acc.moics[sim] = R(0)
     /\ acc.irrs[sim] = Num(R(0))

\* C4 as the specification states it: an invocation with numSimulations <= 0
\* publishes nothing to either result slot.
C4_NonPositiveNumSimulationsRejected ==
  [][(pc # "idle" /\ cl.numSimulations <= 0)
     => /\ store'.simulationResults = store.simulationResults
        /\ store'.portfolioSimulationResults = store.portfolioSimulationResults]_vars

\* the run in flight was started in Portfolio mode with no company
ZeroCompanyRun ==
  pc # "idle" /\ cl.isPortfolioMode /\ Len(cl.portfolioCompanies) = 0

\* C5 (both entry points): a Portfolio-mode run started with zero companies
\* publishes nothing, leaves the stored portfolioSimulationResults as it was,
\* and when its timer ends the run is over with isSimulating = false.
C5_ZeroCompaniesRejected ==
  [][ZeroCompanyRun =>
       /\ store'.portfolioSimulationResults = store.portfolioSimulationResults
       /\ store'.simulationResults = store.simulationResults
       /\ pc' \in {"timer", "idle"}
       /\ (pc' = "idle" => /\ ~store'.isSimulating
                           /\ toast' = "Please add at least one portfolio company")]_vars

\* C5 witness: a run was rejected while an earlier run's results are stored
C5_Witness ==
  /\ toast = "Please add at least one portfolio company"
  /\ pc = "idle"
  /\ ~store.isSimulating
  /\ store.portfolioSimulationResults # Null
  /\ Len(store.portfolioSimulationResults.investments) > 0
  /\ store.portfolioCompanies = <<>>

\* C6 as the specification states it: every Investment recorded in any run of
\* either mode has entryAmount > 0.
C6_EntryAmountPositive ==
  \A x \in RecordedInvestments : RGt(x.entryAmount, R(0))

\* C7 as the specification states it: every recorded Investment has
\* exitAmount >= 0 and every per-run moic is >= 0.
C7_ExitAmountAndMoicNonNegative ==
  /\ \A x \in RecordedInvestments : RGe(x.exitAmount, R(0))
  /\ acc # NoAcc => \A m \in Elements(acc.moics) : RGe(m, R(0))
  /\ \A res \in {store.simulationResults, store.portfolioSimulationResults} :
       res # Null => \A m \in Elements(res.moics) : RGe(m, R(0))

DilutionWithinPercent ==
  \A k \in DOMAIN cl.dilution :
    /\ RGe(cl.dilution[k][1], R(0)) /\ RLe(cl.dilution[k][1], R(100))
    /\ RGe(cl.dilution[k][2], R(0)) /\ RLe(cl.dilution[k][2], R(100))

WithKeyZero(c, k) ==
  [c EXCEPT !.probAdvancement =
     [x \in DOMAIN c.probAdvancement \cup {k} |->
        IF x = k THEN 0 ELSE c.probAdvancement[x]]]

\* C10 (both modes): for every transition key absent from probAdvancement, every
\* investment state the run reaches and every draw, the stage loop's iteration
\* and the exit give the same investment as under the configuration with that
\* key explicitly set to 0.
C10_AbsentProbabilityIsZero ==
  InvestmentUnderWay =>
  \A k \in AllKeys \ DOMAIN cl.probAdvancement :
    /\ (pc = "stageLoop" /\ cl.isPortfolioMode) =>
         \A r \in PercentDraws, uDil \in UnitDraws, uExit \in UnitDraws :
           PortfolioStageStep(cl, cl.followOn, cl.followOnAB, inv, r, uDil, uExit)
             = PortfolioStageStep(WithKeyZero(cl, k), cl.followOn, cl.followOnAB,
                                  inv, r, uDil, uExit)
    /\ (pc = "stageLoop" /\ ~cl.isPortfolioMode) =>
         \A r \in PercentDraws, uDil \in UnitDraws :
           FundStageStep(cl, inv, r, uDil) = FundStageStep(WithKeyZero(cl, k), inv, r, uDil)
    /\ (pc = "exit") =>
         \A r2 \in PercentDraws, uExit \in UnitDraws :
           IF cl.isPortfolioMode
           THEN PortfolioExit(cl, inv, r2, uExit) = PortfolioExit(WithKeyZero(cl, k), inv, r2, uExit)
           ELSE FundExit(cl, inv, r2, uExit) = FundExit(WithKeyZero(cl, k), inv, r2, uExit)

\* C10 witness: an investment that advanced has stopped at a transition whose
\* key probAdvancement does not hold
C10_Witness ==
  /\ pc = "exit"
  /\ inv.currentStage # inv.entryStage
  /\ inv.currentStage # "IPO"
  /\ progressionKey(inv.currentStage,
                    stagesSequence[StageRank(inv.currentStage) + 1])
       \notin DOMAIN cl.probAdvancement

\* C11: an invocation's published SimulationResults is the value the simulation
\* function of its mode gives for the configuration it started with and the
\* Math.random() values it consumed, whatever an earlier invocation left in
\* the store; two invocations with the same configuration and draws therefore
\* publish the same results.
Published(st) == IF st.isPortfolioMode THEN st.portfolioSimulationResults
                 ELSE st.simulationResults
C11_ResultIsFunctionOfConfigAndDraws ==
  [][ (pc = "simLoop" /\ pc' = "idle")
        => Published(store') = IF cl.isPortfolioMode
                               THEN simulatePortfolio(cl, draws.seq)
                               ELSE runStandardSimulation(cl, draws.seq) ]_vars
\* a second invocation has published while the draws of a run with at least
\* one investment were recorded: it started on a store holding earlier results
C11_Witness ==
  /\ pc = "timer"
  /\ Published(store) # Null
  /\ Len(Published(store).investments) > 0
  /\ Len(draws.seq) = 0
  /\ draws.on

\* C12: in Fund mode, in every run, the entryAmounts of the investments made
\* at a stage sum to at most that stage's budget, stageAllocations[stage]% of
\* deployableCapital, and every investment is made at a valid stage; with 100%
\* allocated to one stage every investment of the run has that stage as
\* entryStage and the entryAmounts sum to at most deployableCapital + 0.1.
StageBudget(c, stage) == RMul(Q(c.stageAllocations[stage], 100), c.deployableCapital)
MadeAt(invs, stage) == SelectSeq(invs, LAMBDA x : x.entryStage = stage)
FundRunUnderWay == cl # NoClosure /\ ~cl.isPortfolioMode /\ run # NoRun
C12_StageBudgetNeverExceeded ==
  FundRunUnderWay =>
    /\ \A x \in Elements(run.simInvestments) : x.entryStage \in Elements(validStages(cl))
    /\ \A stage \in Elements(validStages(cl)) :
         /\ RLe(SumEntry(MadeAt(run.simInvestments, stage)), StageBudget(cl, stage))
         /\ cl.stageAllocations[stage] = 100
              => /\ \A x \in Elements(run.simInvestments) : x.entryStage = stage
                 /\ RLe(SumEntry(run.simInvestments),
                         RAdd(cl.deployableCapital, DustThreshold))
\* a run with everything allocated to Series B has recorded an investment whose
\* check was clipped to the stage's budget
C12_Witness ==
  /\ FundRunUnderWay
  /\ cl.stageAllocations["Series B"] = 100
  /\ Len(run.simInvestments) > 0
  /\ SumEntry(run.simInvestments) = StageBudget(cl, "Series B")
  /\ RLt(run.simInvestments[1].entryAmount, DefaultCheckSizes["Series B"][1])

\* C13 (both modes): with probAdvancement["Seed to Series A"] = 100 and
\* dilution["Seed to Series A"] = [20, 20], the stage-loop iteration of an
\* investment at Seed moves it to Series A and multiplies its equity by
\* exactly 0.8, for every draw.
SeedAlwaysAdvancesAtTwenty ==
  /\ "Seed to Series A" \in DOMAIN cl.probAdvancement
  /\ cl.probAdvancement["Seed to Series A"] = 100
  /\ "Seed to Series A" \in DOMAIN cl.dilution
  /\ cl.dilution["Seed to Series A"] = Range(20, 20)
SeriesAAlwaysLost ==
  /\ "Series A" \in DOMAIN cl.lossProbabilities
  /\ cl.lossProbabilities["Series A"] = 100
C14_CertainLossAtSeriesA ==
  [][ (pc = "exit" /\ inv.currentStage = "Series A" /\ SeriesAAlwaysLost)
        => /\ inv'.exitAmount = R(0)
           /\ inv'.exitStage = "Series A"
           /\ run'.simInvestments[Len(run'.simInvestments)].exitAmount = R(0)
           /\ run'.simInvestments[Len(run'.simInvestments)].exitStage = "Series A" ]_vars
\* a fund investment made before Series A stopped there and was recorded as lost
C14_Witness ==
  /\ pc = "genLoop"
  /\ SeriesAAlwaysLost
  /\ Len(run.simInvestments) > 0
  /\ inv.entryStage # "Series A"
  /\ inv.exitStage = "Series A"
  /\ inv.exitAmount = R(0)
  /\ run.simInvestments[Len(run.simInvestments)].exitStage = "Series A"

\* C15 (both modes): the run-index prefix of an Investment's id is the index
\* under which the detail view offers the run that produced it: the
\* investments of the run that just ended are exactly those the view retrieves
\* for that run's index among 1..numSimulations, and every investment of the
\* published results is retrieved for some index the selector offers.
RunJustEnded == pc \in {"companyLoop", "stageAllocLoop"} /\ pc' = "simLoop"
C15_RunIndexSelectsItsRun ==
  /\ [][ RunJustEnded =>
           SelectSeq(acc'.allInvestments, LAMBDA x : simIdx(x) = sim') = run'.simInvestments ]_vars
  /\ [](\A res \in {store.simulationResults, store.portfolioSimulationResults} \ {Null} :
          \A x \in Elements(res.investments) :
            \E k \in SelectableSims(store) : x \in Elements(DetailViewInvestments(res, k)))

\* C16 (both modes): at the exit of an investment that did not reach IPO, for
\* every draw, an exitValuations map without the investment's stage gives the
\* same investment as the map with that stage set to [4, 10], and a
\* lossProbabilities map without the stage the same as the map with it set
\* to 30.
WithExitRange(c, stage, range) ==
  [c EXCEPT !.exitValuations =
     [x \in DOMAIN c.exitValuations \cup {stage} |->
        IF x = stage THEN range ELSE c.exitValuations[x]]]
WithLossProbability(c, stage, p) ==
  [c EXCEPT !.lossProbabilities =
     [x \in DOMAIN c.lossProbabilities \cup {stage} |->
        IF x = stage THEN p ELSE c.lossProbabilities[x]]]
ExitOf(c, v, r2, uExit) ==
  IF c.isPortfolioMode THEN PortfolioExit(c, v, r2, uExit) ELSE FundExit(c, v, r2, uExit)
C16_AbsentEntriesTakeDocumentedDefaults ==
  (pc = "exit" /\ inv.currentStage # "IPO") =>
    \A r2 \in PercentDraws, uExit \in UnitDraws :
      /\ inv.currentStage \notin DOMAIN cl.exitValuations
           => ExitOf(cl, inv, r2, uExit)
                = ExitOf(WithExitRange(cl, inv.currentStage, Range(4, 10)), inv, r2, uExit)
      /\ inv.currentStage \notin DOMAIN cl.lossProbabilities
           => ExitOf(cl, inv, r2, uExit)
                = ExitOf(WithLossProbability(cl, inv.currentStage, 30), inv, r2, uExit)

\* C17: whenever the store holds results with at least one run, the counts of
\* the ten histogram bins built from their moics sum to the number of runs,
\* with a smallest moic counted in the first bin and a largest in the last,
\* also when all the moics are equal.
C17_HistogramCountsEveryRun ==
  \A res \in {store.simulationResults, store.portfolioSimulationResults} \ {Null} :
    Len(res.moics) > 0 =>
      /\ SumOf(getMoicChartData(res)) = Len(res.moics)
      /\ getMoicChartData(res)[1] > 0
      /\ getMoicChartData(res)[binCount] > 0

\* C18: from the start of an invocation to its end the configuration, company
\* list and mode its runs use stay those of the store at the start, whatever
\* is set in the store meanwhile, and the results it publishes are those of
\* the simulation function of that mode on that one configuration.
C18_ConfigurationFixedAtStart ==
  [][ /\ (pc = "idle" /\ pc' # "idle") => cl' = Closure(store, followOn, followOnAB)
      /\ (pc # "idle" /\ pc' # "idle") => cl' = cl
      /\ (pc = "simLoop" /\ pc' = "idle")
           => /\ Published([store' EXCEPT !.isPortfolioMode = cl.isPortfolioMode])
                  = IF cl.isPortfolioMode
                    THEN simulatePortfolio(cl, draws.seq)
                    ELSE runStandardSimulation(cl, draws.seq) ]_vars
\* the last run of an invocation has ended with the store's mode,
\* numSimulations, company list and probabilities all different from the ones
\* the invocation started with
C18_Witness ==
  /\ pc = "simLoop"
  /\ sim >= cl.numSimulations
  /\ Len(acc.allInvestments) > 0
  /\ store.isPortfolioMode # cl.isPortfolioMode
  /\ store.numSimulations # cl.numSimulations
  /\ store.portfolioCompanies # cl.portfolioCompanies
  /\ store.probAdvancement # cl.probAdvancement

\* C19 (both modes): at the exit of an investment that advanced into IPO, for
\* every draw, the investment ends with exitStage = IPO and with the sampled
\* IPO exit as its exitAmount, and no loss draw is made: Portfolio mode, which
\* priced the exit on reaching IPO, draws nothing more, and Fund mode draws
\* the exit valuation only.
C19_NoLossCheckAtIPO ==
  (pc = "exit" /\ inv.currentStage = "IPO") =>
    \A r2 \in PercentDraws, uExit \in UnitDraws :
      /\ ExitOf(cl, inv, r2, uExit).exitStage = "IPO"
      /\ cl.isPortfolioMode
           => /\ ExitOf(cl, inv, r2, uExit).exitAmount = inv.exitAmount
              /\ PortfolioExitDraws(cl, inv, r2, uExit) = <<>>
      /\ ~cl.isPortfolioMode
           => /\ ExitOf(cl, inv, r2, uExit).exitAmount
                   = RMul(inv.equity,
                          Sample(Lookup(cl.exitValuations, "IPO", Range(10, 90)), uExit))
              /\ FundExitDraws(cl, inv, r2, uExit) = <<uExit>>

\* C20 (both modes): with a "Series C" entry in exitValuations, the exit of an
\* investment that reaches IPO is priced with a valuation sampled from that
\* entry: in Portfolio mode on the transition into IPO, in Fund mode at the
\* exit unless the investment is lost there.
SeriesCRange == cl.exitValuations["Series C"]
C20_IPOExitSampledFromSeriesC ==
  (InvestmentUnderWay /\ "Series C" \in DOMAIN cl.exitValuations) =>
    /\ (pc = "stageLoop" /\ cl.isPortfolioMode) =>
         \A r \in PercentDraws, uDil \in UnitDraws, uExit \in UnitDraws :
           LET w == PortfolioStageStep(cl, cl.followOn, cl.followOnAB, inv, r, uDil, uExit)
           IN  w.reachedIPO
                 => w.exitAmount = RMul(RMul(w.equity, Sample(SeriesCRange, uExit)),
                                        w.entryAmount)
    /\ (pc = "exit" /\ ~cl.isPortfolioMode /\ inv.currentStage = "IPO") =>
         \A r2 \in PercentDraws, uExit \in UnitDraws :
           FundExit(cl, inv, r2, uExit).exitAmount
             \in {R(0), RMul(inv.equity, Sample(SeriesCRange, uExit))}

\* C21 (both modes): the stage loop makes no loss draw and reads no loss
\* probability, whatever stages the investment passes through; the exit of an
\* investment that stopped before IPO makes exactly one loss draw, its first
\* draw, decided by the loss probability of the stage it stopped at alone; and
\* the exit is the investment's last step, after every advancement draw.
OnlyLossAt(c, stage) ==
  [c EXCEPT !.lossProbabilities =
     [x \in AllStages |-> IF x = stage THEN Lookup(c.lossProbabilities, stage, 30) ELSE 100]]
ExitDrawsOf(c, v, r2, uExit) ==
  IF c.isPortfolioMode THEN PortfolioExitDraws(c, v, r2, uExit) ELSE FundExitDraws(c, v, r2, uExit)
C21_OneLossDrawAtTerminalStage ==
  /\ [](pc = "stageLoop" =>
          IF cl.isPortfolioMode
          THEN \A r \in PercentDraws, uDil \in UnitDraws, uExit \in UnitDraws :
                 PortfolioStageStep(cl, cl.followOn, cl.followOnAB, inv, r, uDil, uExit)
                   = PortfolioStageStep(OnlyLossAt(cl, "IPO"), cl.followOn, cl.followOnAB,
                                        inv, r, uDil, uExit)
          ELSE \A r \in PercentDraws, uDil \in UnitDraws :
                 FundStageStep(cl, inv, r, uDil) = FundStageStep(OnlyLossAt(cl, "IPO"), inv, r, uDil))
  /\ []((pc = "exit" /\ inv.currentStage # "IPO") =>
          \A r2 \in PercentDraws, uExit \in UnitDraws :
            /\ ExitOf(cl, inv, r2, uExit) = ExitOf(OnlyLossAt(cl, inv.currentStage), inv, r2, uExit)
            /\ Head(ExitDrawsOf(cl, inv, r2, uExit)) = r2
            /\ Len(ExitDrawsOf(cl, inv, r2, uExit)) <= 2
            /\ Len(ExitDrawsOf(cl, inv, r2, uExit)) = 2
                 => ExitDrawsOf(cl, inv, r2, uExit)[2] = uExit)
  /\ [][ /\ (pc = "exit" => pc' \in {"companyLoop", "genLoop"})
         /\ (pc = "stageLoop" => pc' \in {"stageLoop", "exit"}) ]_vars
\* an investment that passed through a stage with a nonzero loss probability
\* has exited at a later stage before IPO without being lost
C21_Witness ==
  /\ pc \in {"companyLoop", "genLoop"}
  /\ inv # NoInv
  /\ inv.exitStage \notin {inv.entryStage, "IPO"}
  /\ inv.exitAmount # R(0)
  /\ Lookup(cl.lossProbabilities, inv.entryStage, 30) > 0

\* C22 (both modes): an iteration of the stage loop that is not forced moves
\* the investment to the next stage exactly when the advancement draw is
\* strictly less than the probability of the transition, absent read as 0.
TransitionProbability ==
  LET seq == IF cl.isPortfolioMode THEN stagesSequence ELSE FundStagesSequence(inv.entryStage)
  IN  Lookup(cl.probAdvancement, progressionKey(seq[inv.i], seq[inv.i + 1]), 0)
C22_AdvancesExactlyBelowProbability ==
  pc = "stageLoop" =>
    \A r \in PercentDraws, uDil \in UnitDraws, uExit \in UnitDraws :
      LET w == IF cl.isPortfolioMode
               THEN PortfolioStageStep(cl, cl.followOn, cl.followOnAB, inv, r, uDil, uExit)
               ELSE FundStageStep(cl, inv, r, uDil)
      IN  (w.forcedSeedFollow = inv.forcedSeedFollow /\ w.forcedABFollow = inv.forcedABFollow)
            => (w.currentStage # inv.currentStage <=> r < TransitionProbability)

\* C23 (both modes): the exit of an investment that stopped before IPO is a
\* total loss by the loss check (exitAmount 0 and no exit valuation drawn)
\* exactly when the loss draw is strictly less than the loss probability of
\* the stage it stopped at, absent read as 30; otherwise the exit valuation is
\* drawn and prices the exit.
TerminalLossProbability == Lookup(cl.lossProbabilities, inv.currentStage, 30)
C23_LostExactlyBelowLossProbability ==
  (pc = "exit" /\ inv.currentStage # "IPO") =>
    \A r2 \in PercentDraws, uExit \in UnitDraws :
      IF r2 < TerminalLossProbability
      THEN /\ ExitOf(cl, inv, r2, uExit).exitAmount = R(0)
           /\ ExitDrawsOf(cl, inv, r2, uExit) = <<r2>>
      ELSE ExitDrawsOf(cl, inv, r2, uExit) = <<r2, uExit>>

\* C24 (both modes): an iteration of the stage loop that leaves the investment
\* at its stage ends the loop: the next step is the investment's exit, which
\* keeps the stage, records it as exitStage, fires no follow-on override, and
\* is followed by the next company or investment.
C24_StallIsAbsorbing ==
  [][ /\ (pc = "stageLoop" /\ inv'.currentStage = inv.currentStage)
           => (pc' = "exit" /\ ~inv'.looping)
      /\ pc = "exit"
           => /\ inv'.currentStage = inv.currentStage
              /\ inv'.exitStage = inv.currentStage
              /\ inv'.forcedSeedFollow = inv.forcedSeedFollow
              /\ inv'.forcedABFollow = inv.forcedABFollow
              /\ pc' \in {"companyLoop", "genLoop"} ]_vars
\* company c1, ticked in App for both follow-ons, has stalled at Series A
\* after advancing from Seed, with later transitions that can succeed
C24_Witness ==
  /\ pc = "exit"
  /\ cl.isPortfolioMode
  /\ inv.id = "c1"
  /\ "c1" \in followOnAB.selected
  /\ inv.currentStage = "Series A"
  /\ ~inv.looping
  /\ Lookup(cl.probAdvancement, "Series A to Series B", 0) > 0
  /\ Lookup(cl.probAdvancement, "Series B to Series C", 0) > 0


RemainingAllocation(r) == RSub(r.allocation, r.deployedInStage)

\* C26 (both modes, every configuration): the computation terminates. The
\* allocation a stage's generation loop works on is a finite amount, every
\* iteration that makes an investment leaves at least 0.1 less of it to
\* deploy, and a stage loop is at its sixth stage at the latest after five
\* transition attempts.
C26_LoopsTerminate ==
  /\ [](pc = "genLoop" => run.allocation.d # 0 \/ IsNaN(run.allocation))
  /\ [](pc = "stageLoop" => inv.i <= 5)
  /\ [][(pc = "genLoop" /\ pc' = "stageLoop")
          => RLe(RAdd(RemainingAllocation(run'), DustThreshold),
                 RemainingAllocation(run))]_vars

\* C28 (both entry points, every outcome): the step that ends a run, by its
\* results, by the rejection of an empty portfolio or by an exception of the
\* computation, leaves isSimulating false.
C28_EveryRunEndsNotSimulating ==
  [][(pc # "idle" /\ pc' = "idle") => ~store'.isSimulating]_vars

\* C27 (both entry points): while isSimulating is true no second run starts.
\* The run in flight keeps its entry point and its snapshot until it ends,
\* its timer is never set back, and isSimulating is cleared only by the step
\* that ends it.
C27_OneRunInFlight ==
  [][store.isSimulating =>
       /\ entry # "none" /\ cl # NoClosure /\ pc # "idle"
       /\ pc' # "idle" => /\ entry' = entry
                          /\ cl' = cl
                          /\ currentStep' >= currentStep
                          /\ store'.isSimulating
       /\ pc' = "idle" => ~store'.isSimulating]_vars

\* C27 witness: a run is in flight, past its first timer step, on a store
\* that holds the results of an earlier run
C27_Witness ==
  /\ store.isSimulating
  /\ pc = "timer"
  /\ currentStep >= 1
  /\ store.portfolioSimulationResults # Null

\* the results the store holds, of both modes
ResultsHeld(st) == <<st.simulationResults, st.portfolioSimulationResults>>

\* C29 (both entry points): the step that starts a run sets simulationProgress
\* to 0; while the run is in flight the progress is ten times the number of
\* timer ticks so far, every step leaves it alone or adds 10 to it, and it
\* ends at 100; the results change only by a step taken at progress 100 with
\* isSimulating still true, the step that clears isSimulating.
C29_ProgressThenResults ==
  [][/\ (~store.isSimulating /\ store'.isSimulating)
          => store'.simulationProgress = 0 /\ ResultsHeld(store') = ResultsHeld(store)
     /\ store.isSimulating
          => /\ store.simulationProgress = 10 * currentStep
             /\ store'.simulationProgress \in {store.simulationProgress,
                                               store.simulationProgress + 10}
             /\ store'.simulationProgress <= 100
             /\ ~store'.isSimulating => store'.simulationProgress = 100
     /\ ResultsHeld(store') # ResultsHeld(store)
          => /\ store.simulationProgress = 100
             /\ store.isSimulating
             /\ ~store'.isSimulating]_vars

\* C29 witness: a later run has set the progress of 100 and the results of
\* the run before it back to progress 0, the results still held
C29_Witness ==
  /\ store.isSimulating
  /\ pc = "timer"
  /\ currentStep = 0
  /\ store.simulationProgress = 0
  /\ store.portfolioSimulationResults # Null

\* the effect has nothing to store
EffectAtFixpoint == normalisedAllocations(store) = store.stageAllocations

\* C30 (sliders with values in [0, 100] and the initial stage selector): when
\* the effect is at its fixpoint every allocation is in [0, 100], the stages
\* before initialStage have 0, and the last valid stage has 100 less the sum
\* of the other valid stages, so that the valid stages sum to 100.
C30_AllocationsNormalised ==
  EffectAtFixpoint =>
    LET valid == validStages(store)
        others == sumAllocations(store.stageAllocations, valid, 1)
    IN  /\ \A s \in DOMAIN store.stageAllocations :
             /\ store.stageAllocations[s] >= 0
             /\ store.stageAllocations[s] <= 100
             /\ StageRank(s) < StageRank(store.initialStage)
                  => store.stageAllocations[s] = 0
        /\ store.stageAllocations[valid[Len(valid)]] = 100 - others
        /\ others + store.stageAllocations[valid[Len(valid)]] = 100

\* C30 witness: from Seed on, 60 for Seed, the slider of Series A put at 60
\* and cut to the 40 that remain, nothing left for Series B
C30_Witness ==
  /\ EffectAtFixpoint
  /\ store.initialStage = "Seed"
  /\ store.stageAllocations["Pre-Seed"] = 0
  /\ store.stageAllocations["Seed"] = 60
  /\ store.stageAllocations["Series A"] = 40
  /\ store.stageAllocations["Series B"] = 0

====
